---- MODULE Spec2Model ----
(***************************************************************************)
(* Model of petteriha/speedskating-tools, src/src/topn.py:                 *)
(*   parse_time_to_seconds  (time text -> seconds),                        *)
(*   fetch_topn_xml         (one request with retry / backoff),            *)
(*   extract_rows, build_skater_name, normalize_name,                      *)
(*   run_topn_query         (validation, fetch plan, dedup, ranking).      *)
(* Texts are sequences of one-character strings.  A resolved time is kept  *)
(* exactly as whole seconds plus a fraction in units of 10^-FracDigits.    *)
(***************************************************************************)
EXTENDS Integers, Sequences, FiniteSets, TLC

\* ------------------------------------------------------------ bounds ----
MaxLen == 4         \* longest exhaustively enumerated time text
MaxRetries == 3     \* largest `retries` argument tried on fetch_topn_xml
MaxDoc == 2         \* most <result> entries in one response document
MaxRows == 2        \* <result> entries the service holds for one query
HugeRun == 400      \* length of the over-long digit run among the samples

\* ------------------------------------------------- program constants ----
DefaultRetries == 3
FetchCap == 300
FetchFactor == 3
MinutesFloatDigits == 307   \* minutes * 60 of more digits exceeds a double
SecondsFloatDigits == 309   \* a double holds at most 309 integer digits
FracDigits == MaxLen + 2    \* resolution of a resolved time: 10^-FracDigits s

ALLOWED_DISTANCES == {300, 500, 1000, 1500, 3000, 5000, 10000}

\* --------------------------------------------------------- characters ----
Digits == {"0", "1", "2", "3", "4", "5", "6", "7", "8", "9"}
Lowercase == <<"a", "b", "c", "d", "e", "f", "g", "h", "i", "j", "k", "l", "m",
               "n", "o", "p", "q", "r", "s", "t", "u", "v", "w", "x", "y", "z">>
Uppercase == <<"A", "B", "C", "D", "E", "F", "G", "H", "I", "J", "K", "L", "M",
               "N", "O", "P", "Q", "R", "S", "T", "U", "V", "W", "X", "Y", "Z">>
Letters == {Lowercase[i] : i \in 1..Len(Lowercase)} \cup {Uppercase[i] : i \in 1..Len(Uppercase)}
Whitespace == {" "}

DigitVal(c) ==
  CASE c = "0" -> 0 [] c = "1" -> 1 [] c = "2" -> 2 [] c = "3" -> 3
    [] c = "4" -> 4 [] c = "5" -> 5 [] c = "6" -> 6 [] c = "7" -> 7
    [] c = "8" -> 8 [] c = "9" -> 9

\* str.lower() and str.upper() on one character
Lower(c) ==
  LET at == {i \in 1..Len(Uppercase) : Uppercase[i] = c}
  IN IF at = {} THEN c ELSE Lowercase[CHOOSE i \in at : TRUE]

Upper(c) ==
  LET at == {i \in 1..Len(Lowercase) : Lowercase[i] = c}
  IN IF at = {} THEN c ELSE Uppercase[CHOOSE i \in at : TRUE]

RECURSIVE Pow10(_)
Pow10(n) == IF n = 0 THEN 1 ELSE 10 * Pow10(n - 1)

\* ---------------------------------------------------- text operations ----
\* str.strip() with a given set of characters to remove at both ends
RECURSIVE LStrip(_, _)
LStrip(s, cs) ==
  IF s # <<>> /\ Head(s) \in cs THEN LStrip(Tail(s), cs) ELSE s

RECURSIVE RStrip(_, _)
RStrip(s, cs) ==
  IF s # <<>> /\ s[Len(s)] \in cs THEN RStrip(SubSeq(s, 1, Len(s) - 1), cs) ELSE s

Strip(s) == RStrip(LStrip(s, Whitespace), Whitespace)

StripQuotes(s) == RStrip(LStrip(s, {"\""}), {"\""})

\* re.sub(r"\s+", "", s)
RemoveWhitespace(s) == SelectSeq(s, LAMBDA c : c \notin Whitespace)

\* re.search(r"[A-Za-z]", s)
HasAlpha(s) == \E i \in 1..Len(s) : s[i] \in Letters

\* s.replace(",", ".")
CommaToDot(s) == [i \in 1..Len(s) |-> IF s[i] = "," THEN "." ELSE s[i]]

\* re.fullmatch(r"\d+", s)
AllDigits(s) == Len(s) >= 1 /\ \A i \in 1..Len(s) : s[i] \in Digits

Positions(s, c) == {i \in 1..Len(s) : s[i] = c}

\* re.fullmatch(r"\d+(\.\d+)?", s)
IsDecimal(s) ==
  \/ AllDigits(s)
  \/ \E i \in 1..Len(s) :
       /\ s[i] = "."
       /\ AllDigits(SubSeq(s, 1, i - 1))
       /\ AllDigits(SubSeq(s, i + 1, Len(s)))

\* re.fullmatch(r"(\d+)\.(\d{2})<sep>(\d{2})", s)
IsDottedMinutes(s, sep) ==
  /\ Len(s) >= 7
  /\ AllDigits(SubSeq(s, 1, Len(s) - 6))
  /\ s[Len(s) - 5] = "."
  /\ AllDigits(SubSeq(s, Len(s) - 4, Len(s) - 3))
  /\ s[Len(s) - 2] = sep
  /\ AllDigits(SubSeq(s, Len(s) - 1, Len(s)))

\* ------------------------------------------------------------ numbers ----
SignificantDigits(ds) == LStrip(ds, {"0"})

\* int(digits); only evaluated on digit runs short enough for a machine word
RECURSIVE IntOf(_)
IntOf(ds) ==
  IF ds = <<>> THEN 0 ELSE IntOf(SubSeq(ds, 1, Len(ds) - 1)) * 10 + DigitVal(ds[Len(ds)])

\* the digits after the decimal point as a multiple of 10^-FracDigits
FracOf(ds) == IntOf(ds) * Pow10(FracDigits - Len(ds))

NotATime == [kind |-> "none"]
Overflow == [kind |-> "OverflowError"]
Infinite == [kind |-> "inf"]
Secs(whole, frac) == [kind |-> "secs", sec |-> whole, frac |-> frac]

\* float(text) for a text that matches \d+(\.\d+)?
FloatOf(s) ==
  LET dots == Positions(s, ".")
      ip == IF dots = {} THEN s ELSE SubSeq(s, 1, (CHOOSE i \in dots : TRUE) - 1)
      fp == IF dots = {} THEN <<>> ELSE SubSeq(s, (CHOOSE i \in dots : TRUE) + 1, Len(s))
  IN IF Len(SignificantDigits(ip)) > SecondsFloatDigits
       THEN Infinite
       ELSE Secs(IntOf(ip), FracOf(fp))

\* minutes * 60 + <float>: the int operand is converted to float, which
\* raises OverflowError when it does not fit a double
MinutesPlus(mins, rest) ==
  IF Len(SignificantDigits(mins)) > MinutesFloatDigits
    THEN Overflow
    ELSE IF rest.kind = "inf" THEN Infinite
    ELSE Secs(IntOf(mins) * 60 + rest.sec, rest.frac)

DottedValue(s) ==
  MinutesPlus(SubSeq(s, 1, Len(s) - 6),
              Secs(IntOf(SubSeq(s, Len(s) - 4, Len(s) - 3)),
                   IntOf(SubSeq(s, Len(s) - 1, Len(s))) * Pow10(FracDigits - 2)))

ColonValue(s) ==
  LET s2 == CommaToDot(s)
      cs == Positions(s2, ":")
  IN IF Cardinality(cs) # 1 THEN NotATime
     ELSE LET i == CHOOSE j \in cs : TRUE
              p0 == SubSeq(s2, 1, i - 1)
              p1 == SubSeq(s2, i + 1, Len(s2))
          IN IF ~AllDigits(p0) THEN NotATime
             ELSE IF ~IsDecimal(p1) THEN NotATime
             ELSE MinutesPlus(p0, FloatOf(p1))

parse_time_to_seconds(t) ==
  IF t = <<>> THEN NotATime
  ELSE LET s0 == StripQuotes(Strip(t)) IN
    IF s0 \in {<<"-", "-">>, <<"-">>, <<>>} THEN NotATime
    ELSE IF HasAlpha(s0) THEN NotATime
    ELSE LET s == RemoveWhitespace(s0) IN
      IF IsDottedMinutes(s, ",") THEN DottedValue(s)
      ELSE IF IsDottedMinutes(s, ".") THEN DottedValue(s)
      ELSE IF Positions(s, ":") # {} THEN ColonValue(s)
      ELSE IF IsDecimal(CommaToDot(s)) THEN FloatOf(CommaToDot(s))
      ELSE NotATime

\* resolved times compare as floats do
TimeLess(a, b) ==
  IF a.kind = "inf" THEN FALSE
  ELSE IF b.kind = "inf" THEN TRUE
  ELSE a.sec < b.sec \/ (a.sec = b.sec /\ a.frac < b.frac)

\* round(float(x), 3), on the decimal value: ties go to the even digit.  A
\* binary double lying just off an exact decimal half may round the other
\* way; no claim below depends on the rounding of a half.
Round3(x) ==
  IF x.kind = "inf" THEN x
  ELSE LET unit == Pow10(FracDigits - 3)
           q == x.frac \div unit
           r == x.frac % unit
           up == (2 * r > unit) \/ (2 * r = unit /\ q % 2 = 1)
           q2 == IF up THEN q + 1 ELSE q
       IN IF q2 = 1000 THEN Secs(x.sec + 1, 0) ELSE Secs(x.sec, q2 * unit)

Min(a, b) == IF a <= b THEN a ELSE b
Max(a, b) == IF a >= b THEN a ELSE b

\* list.sort(key=...) is stable.  Items are sorted as [key, val] pairs, the
\* key being <<distance, time>> as in the tuple the source sorts by.
KeyLess(a, b) == a[1] < b[1] \/ (a[1] = b[1] /\ TimeLess(a[2], b[2]))

RECURSIVE InsertSorted(_, _)
InsertSorted(sorted, x) ==
  IF sorted = <<>> THEN <<x>>
  ELSE IF KeyLess(x.key, sorted[Len(sorted)].key)
         THEN Append(InsertSorted(SubSeq(sorted, 1, Len(sorted) - 1), x),
                     sorted[Len(sorted)])
         ELSE Append(sorted, x)

RECURSIVE StableSort(_)
StableSort(s) ==
  IF s = <<>> THEN <<>>
  ELSE InsertSorted(StableSort(SubSeq(s, 1, Len(s) - 1)), s[Len(s)])

Values(s) == [i \in 1..Len(s) |-> s[i].val]

\* " ".join(words)
RECURSIVE JoinWords(_)
JoinWords(ws) ==
  IF ws = <<>> THEN <<>>
  ELSE IF Len(ws) = 1 THEN ws[1]
  ELSE ws[1] \o <<" ">> \o JoinWords(Tail(ws))

\* str.split(): the maximal runs of non-whitespace characters
RECURSIVE SplitWords(_)
SplitWords(s) ==
  LET t == LStrip(s, Whitespace) IN
  IF t = <<>> THEN <<>>
  ELSE LET ends == {i \in 1..Len(t) : t[i] \in Whitespace}
           n == IF ends = {} THEN Len(t) + 1
                ELSE CHOOSE i \in ends : \A j \in ends : i <= j
       IN <<SubSeq(t, 1, n - 1)>> \o SplitWords(SubSeq(t, n, Len(t)))

LowerText(s) == [i \in 1..Len(s) |-> Lower(s[i])]
UpperText(s) == [i \in 1..Len(s) |-> Upper(s[i])]

normalize_name(s) == JoinWords(SplitWords(LowerText(Strip(s))))

\* ------------------------------------------------------ parse_ageclass ----
\* [ok |-> TRUE, gender, age] or [ok |-> FALSE] when ValueError is raised
\* mutant: the gender letter is not checked
FirstLetterAny(g) == TRUE

FirstLetterOk(g) == g \in {"M", "F"}

parse_ageclass(ageclass) ==
  LET s == Strip(ageclass) IN
  IF s = <<>> \/ Len(s) < 2 THEN [ok |-> FALSE]
  ELSE IF ~FirstLetterOk(Upper(s[1])) THEN [ok |-> FALSE]
  ELSE LET age == Strip(Tail(s)) IN
       IF age = <<>> THEN [ok |-> FALSE]
       ELSE [ok |-> TRUE, gender |-> <<Lower(Upper(s[1]))>>, age |-> age]

\* ---------------------------------------------------- skater and rows ----
NameOrUnknown(name) ==
  IF name = <<>> THEN <<"(", "u", "n", "k", "n", "o", "w", "n", ")">> ELSE name

build_skater_name(el) ==
  LET g1 == Strip(el.givenname)
      f1 == Strip(el.familyname)
      native == g1 = <<>> /\ f1 = <<>>
      given == IF native THEN Strip(el.givennative) ELSE g1
      family == IF native THEN Strip(el.familynative) ELSE f1
      parts == SelectSeq(<<given, family>>, LAMBDA w : w # <<>>)
  IN NameOrUnknown(Strip(JoinWords(parts)))

\* one <result> element -> the ResultRow built from it (date and event are
\* copied through unread and are left out of the model)
RowOf(entry, ageclass, distance) ==
  LET time_str == Strip(entry.time) IN
  [age |-> ageclass,
   distance |-> distance,
   skater_name |-> IF entry.skater.present THEN build_skater_name(entry.skater)
                   ELSE NameOrUnknown(<<>>),
   skater_id |-> IF entry.skater.present THEN Strip(entry.skater.id) ELSE <<>>,
   time_str |-> time_str,
   time_seconds |-> parse_time_to_seconds(time_str)]

extract_rows(root, ageclass, distance) ==
  SelectSeq([i \in 1..Len(root) |-> RowOf(root[i], ageclass, distance)],
            LAMBDA r : r.time_seconds.kind # "none")

\* parse_time_to_seconds raising inside extract_rows leaves run_topn_query
ExtractRaises(root) ==
  \E i \in 1..Len(root) :
    parse_time_to_seconds(Strip(root[i].time)).kind = "OverflowError"

\* ----------------------------------------------------------- dedup key ----
NamePrefix == <<"n", "a", "m", "e", ":">>

SkaterKey(row) ==
  IF Strip(row.skater_id) # <<>> THEN Strip(row.skater_id)
  ELSE NamePrefix \o normalize_name(row.skater_name)

DedupKey(row) == <<row.distance, SkaterKey(row)>>

\* mutant: an equal time replaces the stored row too
ShouldReplaceOnTie(prev, row) == ~TimeLess(prev.time_seconds, row.time_seconds)

\* the stored row is replaced only by a strictly smaller time
ShouldReplace(prev, row) == TimeLess(row.time_seconds, prev.time_seconds)

KeyIndex(best, key) == {i \in 1..Len(best) : best[i].key = key}

\* best_by_key is a dict: it keeps the order in which keys were first stored
UpdateBest(best, row) ==
  LET key == DedupKey(row)
      at == KeyIndex(best, key)
  IN IF at = {} THEN Append(best, [key |-> key, row |-> row])
     ELSE LET i == CHOOSE j \in at : TRUE IN
          IF ShouldReplace(best[i].row, row)
            THEN [best EXCEPT ![i] = [key |-> key, row |-> row]]
            ELSE best

\* the rows of one document with their keys, as the history keeps them
RECURSIVE Keyed(_)
Keyed(rows) ==
  IF rows = <<>> THEN <<>>
  ELSE <<[key |-> DedupKey(Head(rows)), row |-> Head(rows)]>> \o Keyed(Tail(rows))

RECURSIVE Dedup(_, _)
Dedup(best, rows) ==
  IF rows = <<>> THEN best ELSE Dedup(UpdateBest(best, Head(rows)), Tail(rows))

\* ------------------------------------------------------- query set-up ----
IsAlphaText(s) == s # <<>> /\ \A i \in 1..Len(s) : s[i] \in Letters

\* the country parameter; <<>> stands for "no country parameter"
CountryParam(country) ==
  LET c_in == Strip(country) IN
  IF c_in = <<>> \/ LowerText(c_in) = <<"w", "o", "r", "l", "d">> THEN <<>>
  ELSE IF IsAlphaText(c_in) THEN UpperText(c_in) ELSE c_in

\* mutant: the cap applied to the buffer as well
PerSeasonFetchCapped(per_season_top, top_n) ==
  Min(FetchCap, Max(per_season_top, top_n * FetchFactor))

PerSeasonFetch(per_season_top, top_n) ==
  Max(per_season_top, Min(FetchCap, top_n * FetchFactor))

\* sorted(distances)
SortedDistances(ds) ==
  Values(StableSort([i \in 1..Len(ds) |-> [key |-> <<ds[i], Secs(0, 0)>>, val |-> ds[i]]]))

SeqToSet(s) == {s[i] : i \in 1..Len(s)}

DistancesOk(ds) == ds # <<>> /\ \A i \in 1..Len(ds) : ds[i] \in ALLOWED_DISTANCES

\* the request URL: its query parameters
Url(season, gender, distance, max_n, age, country) ==
  [season |-> season, gender |-> gender, distance |-> distance, max |-> max_n,
   age |-> age, country |-> country]

\* --------------------------------------------------------- the output ----
RowsOfDistance(best, d) ==
  Values(SelectSeq([i \in 1..Len(best) |-> [key |-> best[i].key, val |-> best[i].row]],
                   LAMBDA e : e.key[1] = d))

SortByTime(rows) ==
  Values(StableSort([i \in 1..Len(rows) |->
                       [key |-> <<0, rows[i].time_seconds>>, val |-> rows[i]]]))

Truncate(rows, top_n) == SubSeq(rows, 1, Min(top_n, Len(rows)))

OutputRow(idx, r) ==
  [Rank |-> idx, Age |-> r.age, Distance |-> r.distance,
   SkaterName |-> r.skater_name, SkaterId |-> r.skater_id,
   Time |-> r.time_str, TimeSeconds |-> Round3(r.time_seconds)]

RankedRows(best, d, top_n) ==
  LET top == Truncate(SortByTime(RowsOfDistance(best, d)), top_n)
  IN [i \in 1..Len(top) |-> OutputRow(i, top[i])]

\* the loop over sorted(distances) that appends each distance's ranked rows
RECURSIVE CollectRows(_, _, _)
CollectRows(order, best, top_n) ==
  IF order = <<>> THEN <<>>
  ELSE RankedRows(best, Head(order), top_n) \o CollectRows(Tail(order), best, top_n)

FinalSort(rows) ==
  Values(StableSort([i \in 1..Len(rows) |->
                       [key |-> <<rows[i].Distance, rows[i].TimeSeconds>>, val |-> rows[i]]]))

SummaryOf(order, best, top_n, errors, fetched) ==
  [d \in SeqToSet(order) |->
     [raw_rows |-> fetched[d],
      unique_skaters |-> Len(RowsOfDistance(best, d)),
      written |-> Min(top_n, Len(RowsOfDistance(best, d))),
      errors |-> errors[d]]]

\* mutant: the same delay before every attempt
BackoffFlat(backoff_s, attempt) == backoff_s

\* delay before the next attempt
BackoffDelay(backoff_s, attempt) == backoff_s * attempt

\* =========================================================== the state ====
VARIABLES
  ptext, pres, ppc,          \* parse_time_to_seconds: argument, result, position
  fetch, flog,               \* fetch_topn_xml: its frame, and what it did so far
  request,                   \* the arguments of run_topn_query
  qpc,                       \* idle | validate | loop | done | error | crashed
  plan,                      \* gender, age, start, end, country, fetch size, order
  di, season,                \* position in the distance x season loops
  best_by_key,               \* the dedup map, in insertion order
  api_errors_by_distance,
  fetched_rows_by_distance,
  out_rows, summary,         \* what run_topn_query returns
  seen,                      \* history: every extracted row with its key, in order
  calls,                     \* history: every fetch_topn_xml call made
  failed,                    \* history: the cells whose fetch raised
  stock                      \* number of <result> entries the service can still send

pvars == <<ptext, pres, ppc>>
fvars == <<fetch, flog>>
qvars == <<request, qpc, plan, di, season, best_by_key, api_errors_by_distance,
           fetched_rows_by_distance, out_rows, summary, seen, calls, failed>>
vars == <<ptext, pres, ppc, fetch, flog, request, qpc, plan, di, season,
          best_by_key, api_errors_by_distance, fetched_rows_by_distance,
          out_rows, summary, seen, calls, failed, stock>>

\* ------------------------------------------------------ input domains ----
Alphabet == {"1", "5", ".", ",", ":", "-", " ", "\"", "D"}

ShortTexts == UNION {[1..n -> Alphabet] : n \in 0..MaxLen}

HugeDigits == [i \in 1..HugeRun |-> "9"]

SampleTexts ==
  { <<"3", "7", ",", "4", "5">>,
    <<"3", "7", ".", "4", "5">>,
    <<"1", ":", "1", "0", ",", "2", "3">>,
    <<"1", ":", "1", "0", ".", "2", "3">>,
    <<"2", ".", "3", "3", ",", "8", "6">>,
    <<"2", ".", "3", "3", ".", "8", "6">>,
    <<"1", "2", ".", "0", "5", ",", "0", "7">>,
    <<"1", ".", "9", "9", ",", "9", "9">>,
    <<"2", ".", "3", "3", ",", "8">>,
    <<"2", ".", "3", ",", "8", "6">>,
    <<"2", ",", "3", "3", ",", "8", "6">>,
    <<"2", ".", "3", "3", ":", "8", "6">>,
    <<"1", ":", "2", ":", "3", "0", ",", "5">>,
    <<" ", "2", ".", "3", " ", "3", ",", "8", "6", " ">>,
    <<"\"", "2", ".", "3", "3", ",", "8", "6", "\"">>,
    <<"3", "7", ",", "4", "5", "0", "4">>,
    <<"D", "N", "S">>,
    <<"D", "Q">>,
    <<"-", "-">>,
    <<"-", "3", "7", ",", "4", "5">>,
    HugeDigits,
    HugeDigits \o <<":", "0", "0">>,
    HugeDigits \o <<".", "0", "0", ",", "0", "0">>,
    <<"1", ":">> \o HugeDigits }

TimeTexts == ShortTexts \cup SampleTexts

Seasons == {2020, 2021}
MaxCounts == {3, 300}
Backoffs == {1, 2}

T_FA2 == <<" ", "f", "A", "2">>
T_fin == <<"f", "i", "n">>

AgeClasses == {<<>>, <<" ", "M", " ">>, <<"X", "A", "2">>, T_FA2}
DistanceLists == {<<>>, <<500, 400>>, <<500>>, <<1000, 500>>, <<500, 500>>}
StartSeasons == {2020, 2021}
EndSeasons == {2020}
TopNs == {1, 2}
Buffers == {5}
WideTopNs == {1, 2, 100, 101}
WideBuffers == {2, 5, 300, 301}
Countries == {T_fin}

RequestsWith(tops, buffers) ==
  [ageclass : AgeClasses, distances : DistanceLists, start_season : StartSeasons,
   end_season : EndSeasons, top_n : tops, per_season_top : buffers,
   country : Countries]

\* what the remote service can answer
NoSkater ==
  [present |-> FALSE, id |-> <<>>, givenname |-> <<>>, familyname |-> <<>>,
   givennative |-> <<>>, familynative |-> <<>>]

SkaterEl(id, given, family, gnative, fnative) ==
  [present |-> TRUE, id |-> id, givenname |-> given, familyname |-> family,
   givennative |-> gnative, familynative |-> fnative]

Skater7 == SkaterEl(<<"7">>, <<"A", "b">>, <<>>, <<>>, <<>>)
SkaterAb == SkaterEl(<<>>, <<" ", "A">>, <<"b">>, <<"Z">>, <<>>)
SkaterNative == SkaterEl(<<" ">>, <<>>, <<" ">>, <<"a">>, <<" ", "B">>)
SkaterNameId ==
  SkaterEl(<<"n", "a", "m", "e", ":", "a", " ", "b">>, <<"Z", "e", "d">>, <<>>, <<>>, <<>>)

T_3745 == <<"3", "7", ",", "4", "5">>
T_369 == <<"3", "6", ",", "9", " ">>
T_374504 == <<"3", "7", ".", "4", "5", "0", "4">>
T_DNS == <<"D", "N", "S">>

ResultEntries ==
  { [time |-> T_3745, skater |-> Skater7],
    [time |-> T_369, skater |-> Skater7],
    [time |-> T_374504, skater |-> SkaterAb],
    [time |-> T_374504, skater |-> SkaterNative],
    [time |-> T_369, skater |-> SkaterNameId],
    [time |-> T_DNS, skater |-> NoSkater] }

Documents(budget) ==
  UNION {[1..n -> ResultEntries] : n \in 0..Min(MaxDoc, budget)}

\* --------------------------------------------------------------- Init ----
IdleFetch ==
  [status |-> "idle", season |-> 0, gender |-> <<>>, distance |-> 0, max_n |-> 0,
   age |-> <<>>, country |-> <<>>, retries |-> 0, backoff_s |-> 0, attempt |-> 0,
   result |-> <<>>, err |-> [url |-> <<>>]]

Calling(s, g, d, m, a, c, retries, backoff_s) ==
  [status |-> "running", season |-> s, gender |-> g, distance |-> d, max_n |-> m,
   age |-> a, country |-> c, retries |-> retries, backoff_s |-> backoff_s,
   attempt |-> 1, result |-> <<>>, err |-> [url |-> <<>>]]

NoRequest ==
  [ageclass |-> <<>>, distances |-> <<>>, start_season |-> 0, end_season |-> 0,
   top_n |-> 0, per_season_top |-> 0, country |-> <<>>]

NoPlan ==
  [gender |-> <<>>, age |-> <<>>, start |-> 0, end |-> 0, country |-> <<>>,
   per_season_fetch |-> 0, order |-> <<>>]

ParserIdle == ptext = <<>> /\ pres = NotATime /\ ppc = "idle"

FetchIdle == fetch = IdleFetch /\ flog = <<>>

QueryBlank ==
  /\ plan = NoPlan /\ di = 0 /\ season = 0
  /\ best_by_key = <<>>
  /\ api_errors_by_distance = <<>>
  /\ fetched_rows_by_distance = <<>>
  /\ out_rows = <<>> /\ summary = <<>>
  /\ seen = <<>> /\ calls = <<>> /\ failed = <<>>

\* a call of run_topn_query, the service holding up to MaxRows results
Init ==
  /\ ParserIdle /\ FetchIdle /\ QueryBlank
  /\ request \in RequestsWith(TopNs, Buffers)
  /\ qpc = "validate"
  /\ stock = MaxRows

\* a call of run_topn_query over the wider range of Top-N and buffer values,
\* the service holding no result for the filters (every document is empty)
InitPlan ==
  /\ ParserIdle /\ FetchIdle /\ QueryBlank
  /\ request \in RequestsWith(WideTopNs, WideBuffers)
  /\ qpc = "validate"
  /\ stock = 0

\* a call of fetch_topn_xml on its own
InitFetch ==
  /\ ParserIdle /\ QueryBlank
  /\ request = NoRequest /\ qpc = "idle"
  /\ flog = <<>>
  /\ stock = MaxRows
  /\ \E s \in Seasons, d \in {500, 1000}, m \in MaxCounts,
        r \in 0..MaxRetries, b \in Backoffs :
       fetch = Calling(s, <<"f">>, d, m, <<"A", "2">>, <<>>, r, b)

\* a call of parse_time_to_seconds on its own
InitParse ==
  /\ FetchIdle /\ QueryBlank
  /\ request = NoRequest /\ qpc = "idle"
  /\ stock = 0
  /\ ptext \in TimeTexts /\ pres = NotATime /\ ppc = "ready"

\* ============================================================ actions ====

\* ---- parse_time_to_seconds, called on its own
ParseTime ==
  /\ ppc = "ready"
  /\ pres' = parse_time_to_seconds(ptext)
  /\ ppc' = "done"
  /\ UNCHANGED <<ptext, fetch, flog, request, qpc, plan, di, season, best_by_key,
                 api_errors_by_distance, fetched_rows_by_distance, out_rows,
                 summary, seen, calls, failed, stock>>

\* ---- fetch_topn_xml: one pass of `for attempt in range(1, retries + 1)`
FetchUrl ==
  Url(fetch.season, fetch.gender, fetch.distance, fetch.max_n, fetch.age, fetch.country)

\* session.get, raise_for_status and ET.fromstring all succeed: return
AttemptSucceeds ==
  /\ fetch.status = "running"
  /\ fetch.attempt <= fetch.retries
  /\ \E doc \in Documents(stock) :
       /\ fetch' = [fetch EXCEPT !.status = "returned", !.result = doc]
       /\ stock' = stock - Len(doc)
  /\ flog' = Append(flog, [ev |-> "get", ok |-> TRUE, secs |-> 0])
  /\ UNCHANGED <<ptext, pres, ppc, request, qpc, plan, di, season, best_by_key,
                 api_errors_by_distance, fetched_rows_by_distance, out_rows,
                 summary, seen, calls, failed>>

\* any of them raises: sleep and go round again, or raise RuntimeError
AttemptFails ==
  /\ fetch.status = "running"
  /\ fetch.attempt <= fetch.retries
  /\ IF fetch.attempt < fetch.retries
       THEN /\ flog' = flog \o <<[ev |-> "get", ok |-> FALSE, secs |-> 0],
                                 [ev |-> "sleep", ok |-> FALSE,
                                  secs |-> BackoffDelay(fetch.backoff_s, fetch.attempt)]>>
            /\ fetch' = [fetch EXCEPT !.attempt = @ + 1]
       ELSE /\ flog' = Append(flog, [ev |-> "get", ok |-> FALSE, secs |-> 0])
            /\ fetch' = [fetch EXCEPT !.status = "raised",
                           !.err = [season |-> fetch.season,
                                    distance |-> fetch.distance,
                                    url |-> FetchUrl]]
  /\ UNCHANGED <<ptext, pres, ppc, request, qpc, plan, di, season, best_by_key,
                 api_errors_by_distance, fetched_rows_by_distance, out_rows,
                 summary, seen, calls, failed, stock>>

\* retries < 1: the loop body never runs and the trailing raise is reached
NoAttempts ==
  /\ fetch.status = "running"
  /\ fetch.retries < 1
  /\ fetch' = [fetch EXCEPT !.status = "raised", !.err = [url |-> FetchUrl]]
  /\ UNCHANGED <<ptext, pres, ppc, flog, request, qpc, plan, di, season, best_by_key,
                 api_errors_by_distance, fetched_rows_by_distance, out_rows,
                 summary, seen, calls, failed, stock>>

\* ---- run_topn_query
\* the checks, then everything up to the first fetch
Validate ==
  /\ qpc = "validate"
  /\ LET ac == parse_ageclass(request.ageclass)
         lo == Min(request.start_season, request.end_season)
         hi == Max(request.start_season, request.end_season)
         ds == SeqToSet(request.distances)
     IN IF ~DistancesOk(request.distances) \/ ~ac.ok
          THEN /\ qpc' = "error"
               /\ UNCHANGED <<plan, di, season, api_errors_by_distance,
                              fetched_rows_by_distance>>
          ELSE /\ qpc' = "loop"
               /\ plan' = [gender |-> ac.gender, age |-> ac.age, start |-> lo, end |-> hi,
                           country |-> CountryParam(request.country),
                           per_season_fetch |->
                             PerSeasonFetch(request.per_season_top, request.top_n),
                           order |-> SortedDistances(request.distances)]
               /\ di' = 1
               /\ season' = lo
               /\ api_errors_by_distance' = [d \in ds |-> <<>>]
               /\ fetched_rows_by_distance' = [d \in ds |-> 0]
  /\ UNCHANGED <<ptext, pres, ppc, fetch, flog, request, best_by_key, out_rows,
                 summary, seen, calls, failed, stock>>

\* the call of fetch_topn_xml for the current cell, with its default retries
CallFetch ==
  /\ qpc = "loop"
  /\ fetch.status = "idle"
  /\ fetch' = Calling(season, plan.gender, plan.order[di], plan.per_season_fetch,
                      plan.age, plan.country, DefaultRetries, 1)
  /\ flog' = <<>>
  /\ calls' = Append(calls, [season |-> season, distance |-> plan.order[di],
                             max_n |-> plan.per_season_fetch])
  /\ UNCHANGED <<ptext, pres, ppc, request, qpc, plan, di, season, best_by_key,
                 api_errors_by_distance, fetched_rows_by_distance, out_rows,
                 summary, seen, failed, stock>>

LastCell == di = Len(plan.order) /\ season = plan.end

\* the next cell of the plan; after the last one, the ranking and the return
Proceed(best, errors, fetched) ==
  IF LastCell
    THEN /\ qpc' = "done"
         /\ out_rows' = FinalSort(CollectRows(plan.order, best, request.top_n))
         /\ summary' = SummaryOf(plan.order, best, request.top_n, errors, fetched)
         /\ UNCHANGED <<di, season>>
    ELSE /\ qpc' = "loop"
         /\ IF season < plan.end
              THEN season' = season + 1 /\ di' = di
              ELSE season' = plan.start /\ di' = di + 1
         /\ UNCHANGED <<out_rows, summary>>

\* except Exception: record the error under the distance, continue
FetchRaised ==
  /\ qpc = "loop"
  /\ fetch.status = "raised"
  /\ LET d == fetch.distance
         errors == [api_errors_by_distance EXCEPT
                      ![d] = Append(@, [season |-> season, error |-> fetch.err])]
     IN /\ api_errors_by_distance' = errors
        /\ Proceed(best_by_key, errors, fetched_rows_by_distance)
  /\ failed' = Append(failed, [distance |-> fetch.distance, season |-> season])
  /\ fetch' = IdleFetch
  /\ flog' = <<>>
  /\ UNCHANGED <<ptext, pres, ppc, request, plan, best_by_key,
                 fetched_rows_by_distance, seen, calls, stock>>

\* the document came back: extract the rows and update the dedup map
FetchReturned ==
  /\ qpc = "loop"
  /\ fetch.status = "returned"
  /\ fetch' = IdleFetch
  /\ flog' = <<>>
  /\ IF ExtractRaises(fetch.result)
       THEN /\ qpc' = "crashed"
            /\ UNCHANGED <<di, season, best_by_key, fetched_rows_by_distance,
                           out_rows, summary, seen>>
       ELSE LET d == fetch.distance
                rows == extract_rows(fetch.result, request.ageclass, d)
                best == Dedup(best_by_key, rows)
                fetched == [fetched_rows_by_distance EXCEPT ![d] = @ + Len(rows)]
            IN /\ best_by_key' = best
               /\ fetched_rows_by_distance' = fetched
               /\ seen' = seen \o Keyed(rows)
               /\ Proceed(best, api_errors_by_distance, fetched)
  /\ UNCHANGED <<ptext, pres, ppc, request, plan, api_errors_by_distance,
                 calls, failed, stock>>

\* ===================================================== specifications ====
Next ==
  \/ Validate
  \/ CallFetch
  \/ AttemptSucceeds
  \/ AttemptFails
  \/ FetchRaised
  \/ FetchReturned

Spec == Init /\ [][Next]_vars

SpecPlan == InitPlan /\ [][Next]_vars

NextFetch ==
  \/ AttemptSucceeds
  \/ AttemptFails
  \/ NoAttempts

SpecFetch == InitFetch /\ [][NextFetch]_vars

NextParse == ParseTime

SpecParse == InitParse /\ [][NextParse]_vars

\* ============================================================= claims ====
RowsFor(d) == SelectSeq(out_rows, LAMBDA r : r.Distance = d)
RequestedDistances == SeqToSet(request.distances)
SeenWithKey(k) == {i \in 1..Len(seen) : seen[i].key = k}
TimeOfSeen(i) == seen[i].row.time_seconds

\* the first row seen with key k among those of minimal resolved time
FirstMinimal(k) ==
  CHOOSE i \in SeenWithKey(k) :
    \A j \in SeenWithKey(k) :
      /\ ~TimeLess(TimeOfSeen(j), TimeOfSeen(i))
      /\ j < i => TimeLess(TimeOfSeen(i), TimeOfSeen(j))

\* C1: after any sequence of extracted rows, every DedupKey seen has exactly
\* one retained row, no other key is stored, and the retained row is the
\* earliest-encountered row among those of minimal resolved time of its key
\* (so its time is <= every time seen with the key, and a tie keeps the first).
C1_DedupInvariant ==
  /\ \A i \in 1..Len(seen) : Cardinality(KeyIndex(best_by_key, seen[i].key)) = 1
  /\ \A b \in 1..Len(best_by_key) :
       /\ SeenWithKey(best_by_key[b].key) # {}
       /\ \A j \in SeenWithKey(best_by_key[b].key) :
            ~TimeLess(TimeOfSeen(j), best_by_key[b].row.time_seconds)
       /\ best_by_key[b].row = seen[FirstMinimal(best_by_key[b].key)].row

\* C1 witness: two different rows of one key tie on the minimal time, in a
\* finished query, and the earlier one is the row retained.
C1_Witness ==
  /\ qpc = "done"
  /\ \E i, j \in 1..Len(seen) :
       /\ i < j
       /\ seen[i].key = seen[j].key
       /\ seen[i].row # seen[j].row
       /\ TimeOfSeen(i) = TimeOfSeen(j)
       /\ FirstMinimal(seen[i].key) = i
       /\ \E b \in 1..Len(best_by_key) : best_by_key[b].row = seen[i].row

\* C2: in every returned result, the ranks of each requested distance are
\* 1..K, each exactly once, and rank i's resolved time is <= rank i+1's.
C2_RankInvariant ==
  qpc = "done" =>
    \A d \in RequestedDistances :
      LET rs == RowsFor(d) IN
      /\ \A r \in 1..Len(rs) : Cardinality({i \in 1..Len(rs) : rs[i].Rank = r}) = 1
      /\ \A i, j \in 1..Len(rs) :
           rs[i].Rank + 1 = rs[j].Rank =>
             ~TimeLess(rs[j].TimeSeconds, rs[i].TimeSeconds)

UniqueSkaters(d) == Cardinality({b \in 1..Len(best_by_key) : best_by_key[b].key[1] = d})

\* C3: for Top-N >= 1 the number of OutputRows of a distance never exceeds
\* Top-N, equals min(Top-N, unique skaters retained for the distance) and is
\* the value reported as summary[d].written.
C3_TopNBound ==
  (qpc = "done" /\ request.top_n >= 1) =>
    \A d \in RequestedDistances :
      /\ Len(RowsFor(d)) <= request.top_n
      /\ Len(RowsFor(d)) = Min(request.top_n, UniqueSkaters(d))
      /\ Len(RowsFor(d)) = summary[d].written
      /\ summary[d].unique_skaters = UniqueSkaters(d)

FailedSeasons(d) ==
  {s \in plan.start..plan.end : \E i \in 1..Len(failed) :
                                  failed[i] = [distance |-> d, season |-> s]}

\* C4: whatever fetches fail, the query visits every cell and returns; the
\* error list of distance d holds exactly one entry per season whose fetch
\* for d failed, tagged with the season, in ascending season order (so a
\* failure for d adds nothing to another distance's list), and the rows of
\* the cells that succeeded are still deduplicated and ranked.
C4_PartialFailure ==
  /\ qpc # "crashed"
  /\ qpc = "done" =>
       /\ \A d \in RequestedDistances : \A s \in plan.start..plan.end :
            \E i \in 1..Len(calls) : calls[i].distance = d /\ calls[i].season = s
       /\ \A d \in RequestedDistances :
            LET es == summary[d].errors IN
            /\ {es[i].season : i \in 1..Len(es)} = FailedSeasons(d)
            /\ \A i, j \in 1..Len(es) : i < j => es[i].season < es[j].season
            /\ \A i \in 1..Len(es) :
                 es[i].error.season = es[i].season /\ es[i].error.distance = d
       /\ \A i \in 1..Len(seen) :
            /\ Cardinality(KeyIndex(best_by_key, seen[i].key)) = 1
            /\ \E r \in 1..Len(out_rows) :
                 out_rows[r].Distance = seen[i].row.distance /\ out_rows[r].Rank = 1

AllowedByTheSpec == {300, 500, 1000, 1500, 3000, 5000, 10000}

MalformedAgeClass(a) ==
  \/ Len(Strip(a)) < 2
  \/ Upper(Strip(a)[1]) \notin {"M", "F"}
  \/ Strip(Tail(Strip(a))) = <<>>

InvalidRequest ==
  \/ request.distances = <<>>
  \/ \E i \in 1..Len(request.distances) : request.distances[i] \notin AllowedByTheSpec
  \/ MalformedAgeClass(request.ageclass)

FetchIssued == calls # <<>> \/ fetch.status # "idle"

\* C5: an empty distance list, a distance outside the allowed set or a
\* malformed age-class code (fewer than two characters once trimmed, first
\* letter not M/F in either case, empty age token) ends the call in the
\* validation error with no fetch issued; a fetch is only ever issued for a
\* request that passed every validation.
C5_ValidationFirst ==
  /\ InvalidRequest => (qpc \in {"validate", "error"} /\ ~FetchIssued)
  /\ qpc = "error" => (InvalidRequest /\ ~FetchIssued)
  /\ FetchIssued => (~InvalidRequest /\ qpc \in {"loop", "done"})

\* C5 witness: a request with valid distances and a malformed age class has
\* ended in the validation error without any fetch.
C5_Witness ==
  /\ qpc = "error"
  /\ DistancesOk(request.distances)
  /\ MalformedAgeClass(request.ageclass)
  /\ calls = <<>>

Gets == SelectSeq(flog, LAMBDA e : e.ev = "get")

\* C6: with retries >= 1, fetch_topn_xml makes at most `retries` attempts,
\* a successful attempt is the last thing it does, after failed attempt
\* k < retries it sleeps backoff_s * k before attempt k+1, and when attempt
\* `retries` fails it raises the error naming season, distance and URL with
\* no further sleep or attempt.
C6_RetryProtocol ==
  fetch.retries >= 1 =>
    /\ Len(Gets) <= fetch.retries
    /\ \A i \in 1..Len(flog) :
         /\ i % 2 = 1 => flog[i].ev = "get"
         /\ i % 2 = 0 => /\ flog[i].ev = "sleep"
                         /\ flog[i].secs = fetch.backoff_s * (i \div 2)
                         /\ ~flog[i - 1].ok
         /\ (flog[i].ev = "get" /\ flog[i].ok) => (i = Len(flog) /\ fetch.status = "returned")
    /\ fetch.status = "running" => Len(flog) = 2 * (fetch.attempt - 1)
    /\ fetch.status = "returned" =>
         (flog # <<>> /\ flog[Len(flog)].ev = "get" /\ flog[Len(flog)].ok)
    /\ fetch.status = "raised" =>
         /\ Len(Gets) = fetch.retries
         /\ Len(flog) = 2 * fetch.retries - 1
         /\ flog[Len(flog)].ev = "get" /\ ~flog[Len(flog)].ok
         /\ DOMAIN fetch.err = {"season", "distance", "url"}
         /\ fetch.err.season = fetch.season
         /\ fetch.err.distance = fetch.distance
         /\ fetch.err.url = FetchUrl

\* C6 witness: a call with three or more retries has failed every attempt
\* and raised, having slept between the attempts.
C6_Witness ==
  /\ fetch.status = "raised"
  /\ fetch.retries >= 3
  /\ Len(flog) = 2 * fetch.retries - 1
  /\ flog[4].ev = "sleep"

\* C7: the returned list is sorted by distance and, within a distance, by
\* resolved time, so that within a distance the rows are in increasing Rank
\* order.
C7_GlobalOrdering ==
  qpc = "done" =>
    \A i, j \in 1..Len(out_rows) :
      i < j =>
        \/ out_rows[i].Distance < out_rows[j].Distance
        \/ /\ out_rows[i].Distance = out_rows[j].Distance
           /\ ~TimeLess(out_rows[j].TimeSeconds, out_rows[i].TimeSeconds)
           /\ out_rows[i].Rank < out_rows[j].Rank

UnparseableByRule(t) ==
  LET s0 == StripQuotes(Strip(t)) IN
  \/ s0 \in {<<>>, <<"-">>, <<"-", "-">>}
  \/ HasAlpha(s0)
  \/ LET s == RemoveWhitespace(s0) IN
       /\ ~IsDottedMinutes(s, ",")
       /\ ~IsDottedMinutes(s, ".")
       /\ IF Positions(s, ":") # {}
            THEN \/ Cardinality(Positions(s, ":")) # 1
                 \/ \E i \in Positions(s, ":") :
                      \/ ~AllDigits(SubSeq(s, 1, i - 1))
                      \/ ~IsDecimal(CommaToDot(SubSeq(s, i + 1, Len(s))))
            ELSE ~IsDecimal(CommaToDot(s))

\* C8: parse_time_to_seconds never raises; a text is unparseable exactly
\* when it is empty, blank, "-" or "--", holds a letter, or fits none of the
\* forms m.ss,cc / m.ss.cc / m:ss(.fraction) / s(.cc); the table values hold
\* ("37,45" and "37.45" -> 37.45, "1:10,23" -> 70.23, "2.33,86" and
\* "2.33.86" -> 153.86, "DNS", "" and "--" unparseable); every value is >= 0.
C8_TimeParser ==
  ppc = "done" =>
    /\ pres.kind # "OverflowError"
    /\ pres.kind = "none" <=> UnparseableByRule(ptext)
    /\ pres.kind = "secs" => (pres.sec >= 0 /\ pres.frac >= 0)
    /\ ptext = <<"3", "7", ",", "4", "5">> => pres = Secs(37, 45 * Pow10(FracDigits - 2))
    /\ ptext = <<"3", "7", ".", "4", "5">> => pres = Secs(37, 45 * Pow10(FracDigits - 2))
    /\ ptext = <<"1", ":", "1", "0", ",", "2", "3">> => pres = Secs(70, 23 * Pow10(FracDigits - 2))
    /\ ptext = <<"2", ".", "3", "3", ",", "8", "6">> => pres = Secs(153, 86 * Pow10(FracDigits - 2))
    /\ ptext = <<"2", ".", "3", "3", ".", "8", "6">> => pres = Secs(153, 86 * Pow10(FracDigits - 2))
    /\ ptext \in {<<"D", "N", "S">>, <<>>, <<"-", "-">>} => pres = NotATime

\* the minutes field of a text in one of the minute forms, else <<>>
MinutesField(t) ==
  LET s == RemoveWhitespace(StripQuotes(Strip(t))) IN
  IF IsDottedMinutes(s, ",") \/ IsDottedMinutes(s, ".") THEN SubSeq(s, 1, Len(s) - 6)
  ELSE IF Cardinality(Positions(s, ":")) = 1
         THEN SubSeq(s, 1, (CHOOSE i \in Positions(s, ":") : TRUE) - 1)
         ELSE <<>>

\* C8 holds of every text whose minutes field fits a double
C8_WithinFloatRange ==
  Len(MinutesField(ptext)) <= MinutesFloatDigits => C8_TimeParser

\* C9: the max-count of every fetch equals min(300, max(buffer, 3 * Top-N))
\* and never exceeds 300.
C9_FetchSizeCapped ==
  \A i \in 1..Len(calls) :
    /\ calls[i].max_n = Min(300, Max(request.per_season_top, 3 * request.top_n))
    /\ calls[i].max_n <= 300

\* C9 as amended: the max-count of every fetch is the larger of the buffer
\* and min(300, 3 * Top-N): the cap binds the Top-N term only.  It is never
\* below the buffer, never above max(buffer, 300), and is the value of
\* min(300, max(buffer, 3 * Top-N)) whenever the buffer is at most 300.
C9_FetchSize ==
  \A i \in 1..Len(calls) :
    LET n == calls[i].max_n
        b == request.per_season_top
        t == 3 * request.top_n
    IN /\ n >= b
       /\ n >= (IF t <= 300 THEN t ELSE 300)
       /\ n = b \/ n = (IF t <= 300 THEN t ELSE 300)
       /\ b <= 300 => (n <= 300 /\ n = Min(300, Max(b, t)))
       /\ b > 300 => n = b
       /\ (fetch.status # "idle" /\ i = Len(calls)) => fetch.max_n = n

\* C9 witness: a fetch was requested with a buffer above 300, and its
\* max-count is the buffer.
C9_Witness ==
  /\ calls # <<>>
  /\ request.per_season_top > 300
  /\ calls[1].max_n = request.per_season_top
  /\ fetch.status = "running" /\ fetch.max_n = request.per_season_top

\* C10: within one distance two rows share a DedupKey only if both carry the
\* same non-empty identifier, or both have no identifier and the same
\* normalised name; an identifier-keyed row never merges with a name-keyed one.
C10_KeySeparation ==
  \A i, j \in 1..Len(seen) :
    (i < j /\ seen[i].key = seen[j].key) =>
      LET a == seen[i].row
          b == seen[j].row
      IN \/ a.skater_id # <<>> /\ a.skater_id = b.skater_id
         \/ /\ a.skater_id = <<>> /\ b.skater_id = <<>>
            /\ normalize_name(a.skater_name) = normalize_name(b.skater_name)

====
